---- MODULE Spec2Model ----
(***************************************************************************)
(* A model of src/app.py: the folder loader (load_reviews_from_folder),    *)
(* the record extractor's failure modes (parse_review_xml), the            *)
(* aggregation engine (summarize_reviews) and the /api/reviews branch of   *)
(* AppHandler.do_GET.                                                      *)
(*                                                                         *)
(* Numbers.  Python floats are modelled as exact rationals [num, den] in   *)
(* lowest terms.  Scores, confidences and word counts are drawn from small *)
(* integers, for which every sum and product the code forms is exact in    *)
(* binary64; round(x, n) is modelled as round-half-to-even on the exact    *)
(* value.  Optional[float] is the empty sequence (None) or a one-element   *)
(* sequence.                                                               *)
(*                                                                         *)
(* Documents.  A directory entry carries the outcome of ET.parse on it     *)
(* (well-formed or not, the root tag) and the values parse_review_xml      *)
(* extracts from it; the text fields and the text metrics that             *)
(* summarize_reviews only copies through (reviewId, overallText,           *)
(* confidentialText, charCount, sentenceCount, uniqueWordRatio) are left   *)
(* out of the records.                                                     *)
(***************************************************************************)
EXTENDS Integers, Sequences, FiniteSets, TLC

VARIABLES
    pc,               \* position of the run
    caller,           \* who called summarize_reviews: "load", "direct"
    folder,           \* the file system at the requested path
    xml_files,        \* load_reviews_from_folder: sorted candidate entries
    idx,              \* load_reviews_from_folder: index of the next candidate
    reviews,          \* the record list (load's local, summarize's argument)
    parse_errors,     \* load_reviews_from_folder: collected messages
    exc,              \* the exception in flight, or None
    response,         \* what send_json wrote, or None
    i,                \* summarize_reviews: loop index
    reviewer_scores,  \* summarize_reviews: key -> list of scores
    reviewer_stats,   \* summarize_reviews: key -> mean/min/max/range
    papers,           \* summarize_reviews: insertion-ordered dict of papers
    review_rows,      \* summarize_reviews: flat rows
    paper_rows,       \* summarize_reviews: aggregated papers
    data,             \* the returned dict, or None
    first_data,       \* the result of an earlier run on the same records
    keys              \* reviewer keys resolved for the records, or None

vars == <<pc, caller, folder, xml_files, idx, reviews, parse_errors, exc,
          response, i, reviewer_scores, reviewer_stats, papers, review_rows,
          paper_rows, data, first_data, keys>>

(***************************************************************************)
(* Bounds of the model.                                                    *)
(***************************************************************************)
MaxFiles == 3

MaxReviews == 3

(***************************************************************************)
(* Optional values and strings.                                            *)
(***************************************************************************)
None == <<>>

Some(v) == <<v>>

Val(o) == o[1]

Contains(s, sub) ==
    \E k \in 1..(Len(s) - Len(sub) + 1) : SubSeq(s, k, k + Len(sub) - 1) = sub

StartsWith(s, prefix) ==
    Len(prefix) <= Len(s) /\ SubSeq(s, 1, Len(prefix)) = prefix

SetMax(S) == CHOOSE m \in S : \A n \in S : n <= m

SetMin(S) == CHOOSE m \in S : \A n \in S : m <= n

(***************************************************************************)
(* Exact rational arithmetic for Python's float expressions.               *)
(***************************************************************************)
Abs(n) == IF n < 0 THEN -n ELSE n

RECURSIVE GCD(_, _)
GCD(a, b) == IF b = 0 THEN a ELSE GCD(b, a % b)

Rat(n, d) ==
    LET s == IF d < 0 THEN -1 ELSE 1
        g == GCD(Abs(n), Abs(d))
    IN  [num |-> (s * n) \div g, den |-> (s * d) \div g]

Whole(n) == [num |-> n, den |-> 1]

RatAdd(a, b) == Rat(a.num * b.den + b.num * a.den, a.den * b.den)

RatSub(a, b) == Rat(a.num * b.den - b.num * a.den, a.den * b.den)

RatMul(a, b) == Rat(a.num * b.num, a.den * b.den)

RatDiv(a, b) == Rat(a.num * b.den, a.den * b.num)

RatLeq(a, b) == a.num * b.den <= b.num * a.den

RatLt(a, b) == a.num * b.den < b.num * a.den

RatMin2(a, b) == IF RatLeq(a, b) THEN a ELSE b

RatMax2(a, b) == IF RatLeq(a, b) THEN b ELSE a

RECURSIVE Pow10(_)
Pow10(n) == IF n = 0 THEN 1 ELSE 10 * Pow10(n - 1)

\* round(x, ndigits): the nearest multiple of 10^-ndigits, ties to even.
Round(x, ndigits) ==
    LET scale == Pow10(ndigits)
        n == x.num * scale
        q == n \div x.den
        r == n - q * x.den
        up == 2 * r > x.den \/ (2 * r = x.den /\ q % 2 = 1)
    IN  Rat(IF up THEN q + 1 ELSE q, scale)

RECURSIVE SumSeq(_)
SumSeq(s) == IF s = <<>> THEN Whole(0) ELSE RatAdd(Head(s), SumSeq(Tail(s)))

RECURSIVE MinSeq(_)
MinSeq(s) == IF Len(s) = 1 THEN s[1] ELSE RatMin2(Head(s), MinSeq(Tail(s)))

RECURSIVE MaxSeq(_)
MaxSeq(s) == IF Len(s) = 1 THEN s[1] ELSE RatMax2(Head(s), MaxSeq(Tail(s)))

(***************************************************************************)
(* summarize_reviews.                                                      *)
(***************************************************************************)
\* A synthetic key that leaves the file name out.
reviewer_key_without_file(review) ==
    IF review.pc_member # "" THEN review.pc_member
    ELSE IF review.subreviewer_email # "" THEN review.subreviewer_email
    ELSE IF review.subreviewer_name # "" THEN review.subreviewer_name
    ELSE "unknown"

reviewer_key_for(review) ==
    IF review.pc_member # "" THEN review.pc_member
    ELSE IF review.subreviewer_email # "" THEN review.subreviewer_email
    ELSE IF review.subreviewer_name # "" THEN review.subreviewer_name
    ELSE "unknown:" \o review.file_name

\* A first loop that tests the score's truth value: a score of 0 is dropped.
Pass1RecordSkippingZero(scores, review) ==
    IF review.overall_score = None \/ review.overall_score = Some(Whole(0)) THEN scores
    ELSE LET key == reviewer_key_for(review)
             old == IF key \in DOMAIN scores THEN scores[key] ELSE <<>>
         IN  [k \in DOMAIN scores \cup {key} |->
                 IF k = key THEN Append(old, Val(review.overall_score))
                 ELSE scores[k]]

\* The first loop: one record's score is filed under its reviewer's key.
Pass1Record(scores, review) ==
    IF review.overall_score = None THEN scores
    ELSE LET key == reviewer_key_for(review)
             old == IF key \in DOMAIN scores THEN scores[key] ELSE <<>>
         IN  [k \in DOMAIN scores \cup {key} |->
                 IF k = key THEN Append(old, Val(review.overall_score))
                 ELSE scores[k]]

\* Statistics only for reviewers with two scores or more.
ReviewerStatsOfRepeatReviewers(scores) ==
    [key \in {k \in DOMAIN scores : Len(scores[k]) >= 2} |->
        LET mean_score == RatDiv(SumSeq(scores[key]), Whole(Len(scores[key])))
            min_score == MinSeq(scores[key])
            max_score == MaxSeq(scores[key])
        IN  [mean |-> mean_score, min |-> min_score, max |-> max_score,
             range |-> RatSub(max_score, min_score)]]

\* Statistics that take the reviewer's first score for the lowest.
ReviewerStatsOfFirstAsMin(scores) ==
    [key \in {k \in DOMAIN scores : scores[k] # <<>>} |->
        LET mean_score == RatDiv(SumSeq(scores[key]), Whole(Len(scores[key])))
            min_score == scores[key][1]
            max_score == MaxSeq(scores[key])
        IN  [mean |-> mean_score, min |-> min_score, max |-> max_score,
             range |-> RatSub(max_score, min_score)]]

\* The second loop: mean, min, max and range of every reviewer with scores.
ReviewerStatsOf(scores) ==
    [key \in {k \in DOMAIN scores : scores[k] # <<>>} |->
        LET mean_score == RatDiv(SumSeq(scores[key]), Whole(Len(scores[key])))
            min_score == MinSeq(scores[key])
            max_score == MaxSeq(scores[key])
        IN  [mean |-> mean_score, min |-> min_score, max |-> max_score,
             range |-> RatSub(max_score, min_score)]]

ReviewObj(review, reviewer_key) ==
    [fileName |-> review.file_name,
     pcMember |-> review.pc_member,
     overallScore |-> review.overall_score,
     confidenceScore |-> review.confidence_score,
     subreviewerName |-> review.subreviewer_name,
     subreviewerEmail |-> review.subreviewer_email,
     wordCount |-> review.word_count,
     reviewerKey |-> reviewer_key]

ReviewRow(review, reviewer_key) ==
    [submission |-> review.submission,
     title |-> review.title,
     fileName |-> review.file_name,
     overallScore |-> review.overall_score,
     confidenceScore |-> review.confidence_score,
     wordCount |-> review.word_count,
     pcMember |-> review.pc_member,
     reviewerKey |-> reviewer_key]

\* Grouping that only looks at the paper added last.
GroupRecordConsecutive(ps, review) ==
    LET obj == ReviewObj(review, reviewer_key_for(review))
    IN  IF ps = <<>> \/ ps[Len(ps)].submission # review.submission
        THEN Append(ps, [submission |-> review.submission,
                         title |-> review.title,
                         authors |-> review.authors,
                         reviews |-> <<obj>>])
        ELSE [ps EXCEPT ![Len(ps)].reviews = Append(@, obj)]

\* papers.setdefault(review.submission, {...}) followed by the append.
GroupRecord(ps, review) ==
    LET obj == ReviewObj(review, reviewer_key_for(review))
        at == {k \in 1..Len(ps) : ps[k].submission = review.submission}
    IN  IF at = {}
        THEN Append(ps, [submission |-> review.submission,
                         title |-> review.title,
                         authors |-> review.authors,
                         reviews |-> <<obj>>])
        ELSE [ps EXCEPT ![SetMin(at)].reviews = Append(@, obj)]

\* A weight without the clamp to [1, 5].
confidence_weight_unclamped(confidence) ==
    IF confidence = None THEN Whole(1)
    ELSE RatAdd(Whole(1),
                RatDiv(RatMul(Rat(1, 2), RatSub(Val(confidence), Whole(1))),
                       Whole(4)))

confidence_weight(confidence) ==
    IF confidence = None THEN Whole(1)
    ELSE LET conf_clamped == RatMin2(RatMax2(Val(confidence), Whole(1)), Whole(5))
         IN  RatAdd(Whole(1),
                    RatDiv(RatMul(Rat(1, 2), RatSub(conf_clamped, Whole(1))),
                           Whole(4)))

Scored(rs) == SelectSeq(rs, LAMBDA r : r.overallScore # None)

RECURSIVE WeightedTotal(_)
WeightedTotal(rs) ==
    IF rs = <<>> THEN Whole(0)
    ELSE LET r == rs[Len(rs)]
             rest == WeightedTotal(SubSeq(rs, 1, Len(rs) - 1))
         IN  IF r.overallScore = None THEN rest
             ELSE RatAdd(rest, RatMul(Val(r.overallScore),
                                      confidence_weight(r.confidenceScore)))

RECURSIVE WeightedDenom(_)
WeightedDenom(rs) ==
    IF rs = <<>> THEN Whole(0)
    ELSE LET r == rs[Len(rs)]
             rest == WeightedDenom(SubSeq(rs, 1, Len(rs) - 1))
         IN  IF r.overallScore = None THEN rest
             ELSE RatAdd(rest, confidence_weight(r.confidenceScore))

\* A contribution measured from the reviewer's lowest score, not the mean.
AdjustedContributionFromMin(r, stats) ==
    IF r.reviewerKey \notin DOMAIN stats THEN <<>>
    ELSE LET st == stats[r.reviewerKey]
         IN  IF RatLt(Whole(0), st.range)
             THEN <<RatDiv(RatSub(Val(r.overallScore), st.min), st.range)>>
             ELSE <<Whole(0)>>

\* What one scored record appends to reviewer_adjusted_scores.
AdjustedContribution(r, stats) ==
    IF r.reviewerKey \notin DOMAIN stats THEN <<>>
    ELSE LET st == stats[r.reviewerKey]
         IN  IF RatLt(Whole(0), st.range)
             THEN <<RatDiv(RatSub(Val(r.overallScore), st.mean), st.range)>>
             ELSE <<Whole(0)>>

RECURSIVE ReviewerAdjustedScores(_, _)
ReviewerAdjustedScores(rs, stats) ==
    IF rs = <<>> THEN <<>>
    ELSE LET r == rs[Len(rs)]
             rest == ReviewerAdjustedScores(SubSeq(rs, 1, Len(rs) - 1), stats)
         IN  IF r.overallScore = None THEN rest
             ELSE rest \o AdjustedContribution(r, stats)

PaperRow(paper, stats) ==
    LET rs == paper.reviews
        scored == Scored(rs)
        confident == SelectSeq(rs, LAMBDA r : r.confidenceScore # None)
        scores == [k \in 1..Len(scored) |-> Val(scored[k].overallScore)]
        confs == [k \in 1..Len(confident) |-> Val(confident[k].confidenceScore)]
        words == [k \in 1..Len(rs) |-> Whole(rs[k].wordCount)]
        denom == WeightedDenom(rs)
        adjusted == ReviewerAdjustedScores(rs, stats)
    IN  [submission |-> paper.submission,
         title |-> paper.title,
         authors |-> paper.authors,
         reviewCount |-> Len(rs),
         avgScore |->
            IF scores # <<>>
            THEN Some(Round(RatDiv(SumSeq(scores), Whole(Len(scores))), 3))
            ELSE None,
         minScore |-> IF scores # <<>> THEN Some(MinSeq(scores)) ELSE None,
         maxScore |-> IF scores # <<>> THEN Some(MaxSeq(scores)) ELSE None,
         scoreDiscrepancy |->
            IF scores # <<>>
            THEN Some(Round(RatSub(MaxSeq(scores), MinSeq(scores)), 3))
            ELSE None,
         avgConfidence |->
            IF confs # <<>>
            THEN Some(Round(RatDiv(SumSeq(confs), Whole(Len(confs))), 3))
            ELSE None,
         avgWordCount |->
            IF words # <<>>
            THEN Round(RatDiv(SumSeq(words), Whole(Len(words))), 1)
            ELSE Whole(0),
         confidenceWeightedScore |->
            IF RatLt(Whole(0), denom)
            THEN Some(Round(RatDiv(WeightedTotal(rs), denom), 3))
            ELSE None,
         reviewerAdjustedScore |->
            IF adjusted # <<>>
            THEN Some(Round(RatDiv(SumSeq(adjusted), Whole(Len(adjusted))), 3))
            ELSE None,
         reviews |-> rs]

Result ==
    [paperCount |-> Len(paper_rows),
     reviewCount |-> Len(review_rows),
     papers |-> paper_rows,
     reviewRows |-> review_rows,
     reviewerCount |-> Cardinality(DOMAIN reviewer_stats)]

loaderVars == <<folder, xml_files, idx, parse_errors, exc, response>>

Pass1Step ==
    /\ pc = "pass1"
    /\ i <= Len(reviews)
    /\ reviewer_scores' = Pass1Record(reviewer_scores, reviews[i])
    /\ i' = i + 1
    /\ UNCHANGED <<pc, caller, reviews, reviewer_stats, papers, review_rows,
                   paper_rows, data, first_data, keys>>
    /\ UNCHANGED loaderVars

ComputeStats ==
    /\ pc = "pass1"
    /\ i > Len(reviews)
    /\ reviewer_stats' = ReviewerStatsOf(reviewer_scores)
    /\ pc' = "group"
    /\ i' = 1
    /\ UNCHANGED <<caller, reviews, reviewer_scores, papers, review_rows,
                   paper_rows, data, first_data, keys>>
    /\ UNCHANGED loaderVars

GroupStep ==
    /\ pc = "group"
    /\ i <= Len(reviews)
    /\ papers' = GroupRecord(papers, reviews[i])
    /\ review_rows' =
          Append(review_rows, ReviewRow(reviews[i], reviewer_key_for(reviews[i])))
    /\ i' = i + 1
    /\ UNCHANGED <<pc, caller, reviews, reviewer_scores, reviewer_stats,
                   paper_rows, data, first_data, keys>>
    /\ UNCHANGED loaderVars

AggregateStep ==
    /\ pc \in {"group", "aggregate"}
    /\ i > Len(reviews)
    /\ Len(paper_rows) < Len(papers)
    /\ paper_rows' =
          Append(paper_rows, PaperRow(papers[Len(paper_rows) + 1], reviewer_stats))
    /\ pc' = "aggregate"
    /\ UNCHANGED <<caller, reviews, i, reviewer_scores, reviewer_stats, papers,
                   review_rows, data, first_data, keys>>
    /\ UNCHANGED loaderVars

Return ==
    /\ pc \in {"group", "aggregate"}
    /\ i > Len(reviews)
    /\ Len(paper_rows) = Len(papers)
    /\ data' = Some(Result)
    /\ pc' = IF caller = "load" THEN "summarized" ELSE "returned"
    /\ UNCHANGED <<caller, reviews, i, reviewer_scores, reviewer_stats, papers,
                   review_rows, paper_rows, first_data, keys>>
    /\ UNCHANGED loaderVars

(***************************************************************************)
(* Paths: file names are strings; sorted() orders them by code point and   *)
(* Path.suffix is the part from the last dot on.                           *)
(***************************************************************************)
AsciiOrder == ".0123456789ABCDEFGHIJKLMNOPQRSTUVWXYZ_abcdefghijklmnopqrstuvwxyz"

UpperCase == "ABCDEFGHIJKLMNOPQRSTUVWXYZ"

LowerCase == "abcdefghijklmnopqrstuvwxyz"

CharAt(s, k) == SubSeq(s, k, k)

Code(c) == CHOOSE k \in 1..Len(AsciiOrder) : CharAt(AsciiOrder, k) = c

RECURSIVE StrLess(_, _)
StrLess(a, b) ==
    IF b = "" THEN FALSE
    ELSE IF a = "" THEN TRUE
    ELSE IF CharAt(a, 1) # CharAt(b, 1) THEN Code(CharAt(a, 1)) < Code(CharAt(b, 1))
    ELSE StrLess(SubSeq(a, 2, Len(a)), SubSeq(b, 2, Len(b)))

LowerChar(c) ==
    IF \E k \in 1..Len(UpperCase) : CharAt(UpperCase, k) = c
    THEN CharAt(LowerCase, CHOOSE k \in 1..Len(UpperCase) : CharAt(UpperCase, k) = c)
    ELSE c

RECURSIVE Lower(_)
Lower(s) == IF s = "" THEN "" ELSE LowerChar(CharAt(s, 1)) \o Lower(SubSeq(s, 2, Len(s)))

\* Path.suffix: empty when the name has no dot after its first character or
\* ends with its last dot.
Suffix(name) ==
    LET dots == {k \in 2..Len(name) : CharAt(name, k) = "."}
    IN  IF dots = {} \/ SetMax(dots) = Len(name) THEN ""
        ELSE SubSeq(name, SetMax(dots), Len(name))

RECURSIVE Sorted(_)
Sorted(S) ==
    IF S = {} THEN <<>>
    ELSE LET first == CHOOSE e \in S : \A o \in S \ {e} : StrLess(e.name, o.name)
         IN  <<first>> \o Sorted(S \ {first})

(***************************************************************************)
(* parse_review_xml: a ReviewParseError for a document that is not         *)
(* well-formed or whose root is not <review>, else the record.             *)
(***************************************************************************)
ParseFailure(msg) == [ok |-> FALSE, error |-> msg]

ParseSuccess(record) == [ok |-> TRUE, record |-> record]

parse_review_xml(xml_path) ==
    LET doc == xml_path.doc
    IN  IF ~doc.wellformed
        THEN ParseFailure("Invalid XML in " \o xml_path.name \o ": " \o doc.error)
        ELSE IF doc.root_tag # "review"
        THEN ParseFailure("Unexpected root tag in " \o xml_path.name \o ": "
                            \o doc.root_tag)
        ELSE ParseSuccess(
                [submission |-> doc.submission,
                 title |-> doc.title,
                 authors |-> doc.authors,
                 file_name |-> xml_path.name,
                 pc_member |-> doc.pc_member,
                 overall_score |-> doc.overall_score,
                 confidence_score |-> doc.confidence_score,
                 subreviewer_name |-> doc.subreviewer_name,
                 subreviewer_email |-> doc.subreviewer_email,
                 word_count |-> doc.word_count])

(***************************************************************************)
(* load_reviews_from_folder and the /api/reviews branch of do_GET.         *)
(***************************************************************************)
Raise(type, msg) == Some([type |-> type, msg |-> msg])

\* The candidate files: immediate entries with suffix .xml that are files.
XmlFiles(dir) ==
    Sorted({p \in dir.entries : Lower(Suffix(p.name)) = ".xml" /\ p.is_file})

NotFoundMessage(dir) == "Folder not found: " \o dir.path

NoneFoundMessage(dir) == "No XML files found in folder: " \o dir.path

\* One message for both failures without data.
NoneParsedMessageAsNoneFound(dir) == "No XML files found in folder: " \o dir.path

NoneParsedMessage(dir) == "No valid review XML files could be parsed."

sumVars == <<i, reviewer_scores, reviewer_stats, papers, review_rows, paper_rows>>

\* do_GET, folder is None: nothing to load.
NoFolderSpecified ==
    /\ pc = "request"
    /\ folder = None
    /\ response' = Some([ok |-> FALSE, status |-> 400,
                         error |-> "No review folder specified. Provide ?dir=/path/to/xml-folder or set --data-dir."])
    /\ pc' = "responded"
    /\ UNCHANGED <<caller, folder, xml_files, idx, reviews, parse_errors, exc,
                   data, first_data, keys>>
    /\ UNCHANGED sumVars

CheckFolder ==
    /\ pc = "request"
    /\ folder # None
    /\ IF ~Val(folder).exists \/ ~Val(folder).is_dir
       THEN /\ exc' = Raise("FileNotFoundError", NotFoundMessage(Val(folder)))
            /\ pc' = "raised"
       ELSE /\ exc' = exc
            /\ pc' = "list"
    /\ UNCHANGED <<caller, folder, xml_files, idx, reviews, parse_errors,
                   response, data, first_data, keys>>
    /\ UNCHANGED sumVars

ListFiles ==
    /\ pc = "list"
    /\ xml_files' = XmlFiles(Val(folder))
    /\ IF xml_files' = <<>>
       THEN /\ exc' = Raise("ReviewParseError", NoneFoundMessage(Val(folder)))
            /\ pc' = "raised"
       ELSE /\ exc' = exc
            /\ pc' = "parse"
    /\ UNCHANGED <<caller, folder, idx, reviews, parse_errors, response, data,
                   first_data, keys>>
    /\ UNCHANGED sumVars

\* A loop without the try: the first ReviewParseError leaves the function.
ParseFileUncaught ==
    /\ pc = "parse"
    /\ idx <= Len(xml_files)
    /\ LET parsed == parse_review_xml(xml_files[idx])
       IN  IF parsed.ok
           THEN /\ reviews' = Append(reviews, parsed.record)
                /\ exc' = exc
                /\ pc' = pc
           ELSE /\ reviews' = reviews
                /\ exc' = Raise("ReviewParseError", parsed.error)
                /\ pc' = "raised"
    /\ idx' = idx + 1
    /\ UNCHANGED <<caller, folder, xml_files, parse_errors, response, data,
                   first_data, keys>>
    /\ UNCHANGED sumVars

\* One turn of the loop: a ReviewParseError is caught and its message kept.
ParseFile ==
    /\ pc = "parse"
    /\ idx <= Len(xml_files)
    /\ LET parsed == parse_review_xml(xml_files[idx])
       IN  IF parsed.ok
           THEN /\ reviews' = Append(reviews, parsed.record)
                /\ parse_errors' = parse_errors
           ELSE /\ reviews' = reviews
                /\ parse_errors' = Append(parse_errors, parsed.error)
    /\ idx' = idx + 1
    /\ UNCHANGED <<pc, caller, folder, xml_files, exc, response, data,
                   first_data, keys>>
    /\ UNCHANGED sumVars

\* After the loop: raise when nothing parsed, else call summarize_reviews.
CheckParsed ==
    /\ pc = "parse"
    /\ idx > Len(xml_files)
    /\ IF reviews = <<>>
       THEN /\ exc' = Raise("ReviewParseError", NoneParsedMessage(Val(folder)))
            /\ pc' = "raised"
       ELSE /\ exc' = exc
            /\ pc' = "pass1"
    /\ UNCHANGED <<caller, folder, xml_files, idx, reviews, parse_errors,
                   response, data, first_data, keys>>
    /\ UNCHANGED sumVars

\* The run metadata added to summarize_reviews' result, and the return.
Finish ==
    /\ pc = "summarized"
    /\ data' = Some([paperCount |-> Val(data).paperCount,
                     reviewCount |-> Val(data).reviewCount,
                     papers |-> Val(data).papers,
                     reviewRows |-> Val(data).reviewRows,
                     reviewerCount |-> Val(data).reviewerCount,
                     sourceFolder |-> Val(folder).path,
                     xmlFiles |-> Len(xml_files),
                     parsedFiles |-> Len(reviews),
                     parseErrors |-> parse_errors])
    /\ pc' = "loaded"
    /\ UNCHANGED <<caller, folder, xml_files, idx, reviews, parse_errors, exc,
                   response, first_data, keys>>
    /\ UNCHANGED sumVars

SendOk ==
    /\ pc = "loaded"
    /\ response' = Some([ok |-> TRUE, status |-> 200, data |-> Val(data)])
    /\ pc' = "responded"
    /\ UNCHANGED <<caller, folder, xml_files, idx, reviews, parse_errors, exc,
                   data, first_data, keys>>
    /\ UNCHANGED sumVars

\* except Exception as exc: the message is the whole report.
SendError ==
    /\ pc = "raised"
    /\ response' = Some([ok |-> FALSE, status |-> 400, error |-> Val(exc).msg])
    /\ exc' = None
    /\ pc' = "responded"
    /\ UNCHANGED <<caller, folder, xml_files, idx, reviews, parse_errors, data,
                   first_data, keys>>
    /\ UNCHANGED sumVars

(***************************************************************************)
(* Record lists handed to summarize_reviews.  The k-th record comes from   *)
(* the k-th file; title, authors and word count differ from file to file.  *)
(***************************************************************************)
Digits == <<"1", "2", "3", "4", "5", "6">>

FileNameAt(k) == "r" \o Digits[k] \o ".xml"

Identity(pc_member, email, name) ==
    [pc_member |-> pc_member, subreviewer_email |-> email,
     subreviewer_name |-> name]

MkReview(k, c) ==
    [submission |-> c.submission,
     title |-> "Title " \o Digits[k],
     authors |-> "Authors " \o Digits[k],
     file_name |-> FileNameAt(k),
     pc_member |-> c.identity.pc_member,
     overall_score |-> c.score,
     confidence_score |-> c.confidence,
     subreviewer_name |-> c.identity.subreviewer_name,
     subreviewer_email |-> c.identity.subreviewer_email,
     word_count |-> 7 * k * k]

Choices(subs, identities, scores, confidences) ==
    [submission : subs, identity : identities, score : scores,
     confidence : confidences]

\* The records of the files r1.xml, r2.xml, ... with the contents c[1], c[2], ...
ReviewList(c) == [k \in DOMAIN c |-> MkReview(k, c[k])]

Submissions == {"17", "42"}

OptScores(S) == {None} \cup {Some(Whole(n)) : n \in S}

\* Reviewer statistics: a shared PC member, and unidentified reviewers.
SumChoices ==
    Choices(Submissions,
            {Identity("alice", "", ""), Identity("", "", "")},
            OptScores({0, 3, 5}), {None})

EmptyMap == [k \in {} |-> <<>>]

SummarizeStart(rs, from) ==
    /\ caller = from
    /\ reviews = rs
    /\ i = 1
    /\ reviewer_scores = EmptyMap
    /\ reviewer_stats = EmptyMap
    /\ papers = <<>>
    /\ review_rows = <<>>
    /\ paper_rows = <<>>
    /\ data = None
    /\ first_data = None
    /\ keys = None

InitSum ==
    /\ \E n \in 0..MaxReviews : \E c \in [1..n -> SumChoices] :
        SummarizeStart(ReviewList(c), "direct")
    /\ pc = "pass1"
    /\ folder = None
    /\ xml_files = <<>>
    /\ idx = 1
    /\ parse_errors = <<>>
    /\ exc = None
    /\ response = None

NextSum == Pass1Step \/ ComputeStats \/ GroupStep \/ AggregateStep \/ Return

SpecSum == InitSum /\ [][NextSum]_vars

(***************************************************************************)
(* The folders a request can name: nothing at the path, a plain file, or a *)
(* directory of at most MaxFiles entries.  An entry is a sub-directory or  *)
(* a file holding a review, a document with another root, or broken XML.   *)
(***************************************************************************)
NamePool == {"B.XML", "a.xml", "c.xml", "d.xml", "notes.txt", ".xml"}

FolderPath == "/srv/reviews"

ReviewDoc(c) ==
    [wellformed |-> TRUE, error |-> "", root_tag |-> "review",
     submission |-> c.submission,
     title |-> "Paper " \o c.submission,
     authors |-> "Authors of " \o c.submission,
     pc_member |-> c.identity.pc_member,
     overall_score |-> c.score,
     confidence_score |-> c.confidence,
     subreviewer_name |-> c.identity.subreviewer_name,
     subreviewer_email |-> c.identity.subreviewer_email,
     word_count |-> 120]

BrokenDoc ==
    [ReviewDoc(CHOOSE c \in SumChoices : TRUE) EXCEPT
        !.wellformed = FALSE,
        !.error = "mismatched tag: line 3, column 2"]

OtherRootDoc ==
    [ReviewDoc(CHOOSE c \in SumChoices : TRUE) EXCEPT !.root_tag = "reviews"]

LoadChoices ==
    Choices(Submissions, {Identity("alice", "", "")}, OptScores({4}) \ {None},
            {Some(Whole(3))})

EntryKinds ==
    {[is_file |-> TRUE, doc |-> d] :
        d \in {BrokenDoc, OtherRootDoc} \cup {ReviewDoc(c) : c \in LoadChoices}}
    \cup {[is_file |-> FALSE, doc |-> ReviewDoc(CHOOSE c \in LoadChoices : TRUE)]}

\* The directory whose entries are named by DOMAIN kind.
Directory(kind) ==
    [path |-> FolderPath, exists |-> TRUE, is_dir |-> TRUE,
     entries |-> {[name |-> n, is_file |-> kind[n].is_file, doc |-> kind[n].doc] :
                    n \in DOMAIN kind}]

NotDirectories ==
    {[path |-> FolderPath, exists |-> FALSE, is_dir |-> FALSE, entries |-> {}],
     [path |-> FolderPath, exists |-> TRUE, is_dir |-> FALSE, entries |-> {}]}

Init ==
    /\ \/ folder = None
       \/ \E f \in NotDirectories : folder = Some(f)
       \/ \E names \in SUBSET NamePool :
            /\ Cardinality(names) <= MaxFiles
            /\ \E kind \in [names -> EntryKinds] : folder = Some(Directory(kind))
    /\ xml_files = <<>>
    /\ idx = 1
    /\ parse_errors = <<>>
    /\ exc = None
    /\ response = None
    /\ SummarizeStart(<<>>, "load")
    /\ pc = "request"

Next ==
    \/ NoFolderSpecified
    \/ CheckFolder
    \/ ListFiles
    \/ ParseFile
    \/ CheckParsed
    \/ Pass1Step
    \/ ComputeStats
    \/ GroupStep
    \/ AggregateStep
    \/ Return
    \/ Finish
    \/ SendOk
    \/ SendError

Spec == Init /\ [][Next]_vars

(***************************************************************************)
(* What the claims about the folder loader speak of, said of the folder    *)
(* itself rather than of the loader's variables.                           *)
(***************************************************************************)
Names(entries) == [k \in 1..Len(entries) |-> entries[k].name]

\* A document the record extractor accepts.
Parses(p) == p.doc.wellformed /\ p.doc.root_tag = "review"

\* A plain file whose name ends in .xml (in any case) after a non-empty stem.
IsCandidate(p) ==
    /\ p.is_file
    /\ Len(p.name) > 4
    /\ Lower(SubSeq(p.name, Len(p.name) - 3, Len(p.name))) = ".xml"

Candidates == IF folder = None THEN {} ELSE {p \in Val(folder).entries : IsCandidate(p)}

InNameOrder(entries) ==
    \A k \in 1..Len(entries) : \A l \in 1..Len(entries) :
        k < l => StrLess(entries[k].name, entries[l].name)

IsPerFileMessage(msg, p) ==
    /\ StartsWith(msg, "Invalid XML in ") \/ StartsWith(msg, "Unexpected root tag in ")
    /\ Contains(msg, p.name)

\* C1: a file whose extraction fails is skipped and its message kept, the files
\* after it are still processed, and a run with a file that parses returns:
\* parsedFiles + |parseErrors| = xmlFiles, and the records are those of the
\* files that parsed, in file-name order.
C1_ParseErrorsDoNotAbort ==
    /\ pc = "parse" =>
        LET seen == SubSeq(xml_files, 1, idx - 1)
            failed == SelectSeq(seen, LAMBDA p : ~Parses(p))
        IN  /\ [k \in 1..Len(reviews) |-> reviews[k].file_name]
                = Names(SelectSeq(seen, Parses))
            /\ Len(parse_errors) = Len(failed)
            /\ \A k \in 1..Len(failed) : IsPerFileMessage(parse_errors[k], failed[k])
    /\ pc = "raised" => \A p \in Candidates : ~Parses(p)
    /\ pc \in {"loaded", "responded"} /\ data # None =>
        LET d == Val(data)
            failed == SelectSeq(xml_files, LAMBDA p : ~Parses(p))
        IN  /\ {xml_files[k] : k \in 1..Len(xml_files)} = Candidates
            /\ InNameOrder(xml_files)
            /\ d.xmlFiles = Cardinality(Candidates)
            /\ d.parsedFiles + Len(d.parseErrors) = d.xmlFiles
            /\ d.parsedFiles = Len(d.reviewRows)
            /\ [k \in 1..Len(d.reviewRows) |-> d.reviewRows[k].fileName]
                = Names(SelectSeq(xml_files, Parses))
            /\ Len(d.parseErrors) = Len(failed)
            /\ \A k \in 1..Len(failed) : IsPerFileMessage(d.parseErrors[k], failed[k])

\* Three candidate documents, the first of them broken, the other two parsed.
C1_Witness ==
    /\ pc = "loaded"
    /\ Val(data).xmlFiles = 3
    /\ Val(data).parsedFiles = 2
    /\ Len(Val(data).parseErrors) = 1
    /\ ~Parses(xml_files[1])
    /\ Names(xml_files) = <<"B.XML", "a.xml", "c.xml">>

Condition ==
    IF ~Val(folder).exists \/ ~Val(folder).is_dir THEN "not found"
    ELSE IF Candidates = {} THEN "none found"
    ELSE IF \A p \in Candidates : ~Parses(p) THEN "none parsed"
    ELSE "success"

\* What a caller can tell from an exception alone.
Classify(e) ==
    IF e.type = "FileNotFoundError" THEN "not found"
    ELSE IF StartsWith(e.msg, "No XML files found") THEN "none found"
    ELSE IF StartsWith(e.msg, "No valid review XML files") THEN "none parsed"
    ELSE "per file"

\* C2: the run ends in the outcome its folder decides, in the order not found,
\* none found, none parsed, success; the exception raised tells the three
\* failures apart, and none reads like a per-file parse error.
C2_FourOutcomes ==
    /\ pc = "raised" => Condition # "success" /\ Classify(Val(exc)) = Condition
    /\ pc \in {"list", "parse"} => Condition # "not found"
    /\ pc = "parse" => Condition \notin {"not found", "none found"}
    /\ pc \in {"pass1", "group", "aggregate", "summarized", "loaded"} =>
        Condition = "success"
    /\ pc = "responded" /\ folder # None => (Val(response).ok <=> Condition = "success")
    /\ \A k \in 1..Len(parse_errors) :
        Classify([type |-> "ReviewParseError", msg |-> parse_errors[k]]) = "per file"

\* Every candidate failed: the run raises, with the per-file messages collected.
C2_Witness ==
    /\ pc = "raised"
    /\ Condition = "none parsed"
    /\ Len(parse_errors) = 2
    /\ \E p \in Val(folder).entries : ~IsCandidate(p) /\ Parses(p)

\* C3: the failure response of a run carries the raised message, and the
\* message names the folder.
C3_FatalMessageNamesPath ==
    pc = "responded" /\ folder # None /\ ~Val(response).ok =>
        Contains(Val(response).error, Val(folder).path)

(***************************************************************************)
(* What the claims about the aggregation engine speak of, said of the      *)
(* input records by position.                                              *)
(***************************************************************************)
Positions == 1..Len(reviews)

KeyAt(k) == reviewer_key_for(reviews[k])

IsScored(k) == reviews[k].overall_score # None

ScoreAt(k) == Val(reviews[k].overall_score)

\* The scored records of one reviewer, over every paper of the run.
ScoredBy(key) == {k \in Positions : IsScored(k) /\ KeyAt(k) = key}

\* The scored records of one paper.
ScoredIn(submission) ==
    {k \in Positions : IsScored(k) /\ reviews[k].submission = submission}

RatEq(a, b) == a.num * b.den = b.num * a.den

RECURSIVE SumOver(_, _)
SumOver(f, S) ==
    IF S = {} THEN Whole(0)
    ELSE LET k == CHOOSE x \in S : TRUE
         IN  RatAdd(f[k], SumOver(f, S \ {k}))

MeanOver(f, S) == RatDiv(SumOver(f, S), Whole(Cardinality(S)))

\* x rounded to 3 decimals: the thousandth nearest to x, the even one of two.
Thousandth(x) ==
    LET near(m) == Abs(2 * (1000 * x.num - m * x.den))
        lo == (1000 * x.num) \div x.den
        m == IF near(lo) < x.den \/ (near(lo) = x.den /\ lo % 2 = 0)
             THEN lo ELSE lo + 1
    IN  Rat(m, 1000)

LowestOf(key) ==
    CHOOSE v \in {ScoreAt(k) : k \in ScoredBy(key)} :
        \A k \in ScoredBy(key) : RatLeq(v, ScoreAt(k))

HighestOf(key) ==
    CHOOSE v \in {ScoreAt(k) : k \in ScoredBy(key)} :
        \A k \in ScoredBy(key) : RatLeq(ScoreAt(k), v)

MeanOf(key) == MeanOver([k \in Positions |-> IF IsScored(k) THEN ScoreAt(k) ELSE Whole(0)],
                        ScoredBy(key))

AfterPass1 == pc \in {"group", "aggregate", "returned"}

ContributionAt(k) ==
    LET spread == RatSub(HighestOf(KeyAt(k)), LowestOf(KeyAt(k)))
    IN  IF RatLt(Whole(0), spread)
        THEN RatDiv(RatSub(ScoreAt(k), MeanOf(KeyAt(k))), spread)
        ELSE Whole(0)

AdjustedOf(submission) ==
    IF ScoredIn(submission) = {} THEN None
    ELSE Some(Thousandth(MeanOver(
            [k \in Positions |-> IF IsScored(k) THEN ContributionAt(k) ELSE Whole(0)],
            ScoredIn(submission))))

\* C6: a paper's reviewerAdjustedScore is the rounded mean, over its scored
\* records, of (score - reviewerMean) / reviewerRange, or 0 for range 0, with
\* the reviewer's mean and range taken over the whole run.
C6_ReviewerAdjustedScore ==
    \A n \in 1..Len(paper_rows) :
        paper_rows[n].reviewerAdjustedScore = AdjustedOf(paper_rows[n].submission)

\* The reviewer scores 5 on the first paper and 3, later, on another: 0.5.
C6_Witness ==
    /\ pc = "returned"
    /\ Len(reviews) = 3
    /\ KeyAt(1) = "alice" /\ reviews[1].overall_score = Some(Whole(5))
    /\ KeyAt(3) = "alice" /\ reviews[3].overall_score = Some(Whole(3))
    /\ KeyAt(2) # "alice"
    /\ reviews[1].submission # reviews[3].submission
    /\ reviews[2].submission = reviews[3].submission
    /\ paper_rows[1].reviewerAdjustedScore = Some(Rat(1, 2))
    /\ paper_rows[2].reviewerAdjustedScore = Some(Rat(-1, 4))

FirstOf(submission) == SetMin({k \in Positions : reviews[k].submission = submission})

FilesOf(submission) ==
    LET own == SelectSeq(reviews, LAMBDA r : r.submission = submission)
    IN  [k \in 1..Len(own) |-> own[k].file_name]

RECURSIVE CountSum(_, _)
CountSum(rows, n) == IF n = 0 THEN 0 ELSE rows[n].reviewCount + CountSum(rows, n - 1)

\* C8: one paper per distinct submission in first-seen order, with the first
\* record's title and authors and exactly its own records in input order; the
\* counts add up; one review row per record, in order, with its reviewer key.
C8_PaperGrouping ==
    pc = "returned" /\ reviews # <<>> =>
        LET d == Val(data)
        IN  /\ {d.papers[n].submission : n \in 1..Len(d.papers)}
                = {reviews[k].submission : k \in Positions}
            /\ \A m \in 1..Len(d.papers) : \A n \in 1..Len(d.papers) :
                m < n => FirstOf(d.papers[m].submission) < FirstOf(d.papers[n].submission)
            /\ \A n \in 1..Len(d.papers) :
                LET row == d.papers[n]
                IN  /\ row.title = reviews[FirstOf(row.submission)].title
                    /\ row.authors = reviews[FirstOf(row.submission)].authors
                    /\ [k \in 1..Len(row.reviews) |-> row.reviews[k].fileName]
                        = FilesOf(row.submission)
                    /\ row.reviewCount = Len(row.reviews)
                    /\ row.reviewCount >= 1
            /\ CountSum(d.papers, Len(d.papers)) = d.reviewCount
            /\ d.reviewCount = Len(reviews)
            /\ d.paperCount = Cardinality({reviews[k].submission : k \in Positions})
            /\ d.paperCount = Len(d.papers)
            /\ Len(d.reviewRows) = Len(reviews)
            /\ \A k \in Positions :
                /\ d.reviewRows[k].fileName = reviews[k].file_name
                /\ d.reviewRows[k].submission = reviews[k].submission
                /\ d.reviewRows[k].reviewerKey = KeyAt(k)

\* Two records of one paper with a record of another paper between them.
C8_Witness ==
    /\ pc = "returned"
    /\ Len(reviews) = 3
    /\ reviews[1].submission = reviews[3].submission
    /\ reviews[1].submission # reviews[2].submission
    /\ Val(data).paperCount = 2
    /\ Val(data).papers[1].reviewCount = 2
    /\ Val(data).papers[1].title = "Title 1"

ScoreFields(row) ==
    {row.avgScore, row.minScore, row.maxScore, row.scoreDiscrepancy,
     row.confidenceWeightedScore, row.reviewerAdjustedScore}

\* C10: every scored record finds its reviewer's statistics and contributes
\* one value; a paper's six score fields are all null when it has no scored
\* record and all non-null otherwise.
C10_ScoredRecordsAreCovered ==
    /\ AfterPass1 => \A k \in Positions : IsScored(k) => KeyAt(k) \in DOMAIN reviewer_stats
    /\ \A n \in 1..Len(paper_rows) :
        LET row == paper_rows[n]
        IN  /\ Len(ReviewerAdjustedScores(row.reviews, reviewer_stats))
                = Cardinality(ScoredIn(row.submission))
            /\ ScoredIn(row.submission) = {} => ScoreFields(row) = {None}
            /\ ScoredIn(row.submission) # {} => None \notin ScoreFields(row)

\* A paper without any score beside a paper with a scored and an unscored record.
C10_Witness ==
    /\ pc = "returned"
    /\ Len(paper_rows) = 2
    /\ ScoreFields(paper_rows[1]) = {None}
    /\ paper_rows[2].reviewCount = 2
    /\ paper_rows[2].avgScore = Some(Whole(0))
    /\ paper_rows[2].reviewerAdjustedScore = Some(Whole(0))

(***************************************************************************)
(* Confidence weighting: records of unidentified reviewers whose scores    *)
(* and confidences vary, the confidences also outside [1, 5].              *)
(***************************************************************************)
MaxConfReviews == 2

ConfChoices ==
    Choices(Submissions, {Identity("", "", "")}, OptScores({2, 4}),
            OptScores({0, 1, 3, 5, 7}))

InitConf ==
    /\ \E n \in 0..MaxConfReviews : \E c \in [1..n -> ConfChoices] :
        SummarizeStart(ReviewList(c), "direct")
    /\ pc = "pass1"
    /\ folder = None
    /\ xml_files = <<>>
    /\ idx = 1
    /\ parse_errors = <<>>
    /\ exc = None
    /\ response = None

SpecConf == InitConf /\ [][NextSum]_vars

\* The weight the claim gives a confidence.
WeightOf(confidence) ==
    IF confidence = None THEN Whole(1)
    ELSE IF RatLeq(Val(confidence), Whole(1)) THEN Whole(1)
    ELSE IF RatLeq(Whole(5), Val(confidence)) THEN Rat(3, 2)
    ELSE RatAdd(Whole(1), RatDiv(RatSub(Val(confidence), Whole(1)), Whole(8)))

WeightedOf(submission) ==
    IF ScoredIn(submission) = {} THEN None
    ELSE LET w == [k \in Positions |-> WeightOf(reviews[k].confidence_score)]
             sw == [k \in Positions |->
                      IF IsScored(k) THEN RatMul(ScoreAt(k), w[k]) ELSE Whole(0)]
         IN  Some(Thousandth(RatDiv(SumOver(sw, ScoredIn(submission)),
                                    SumOver(w, ScoredIn(submission)))))

\* C7: a paper's confidenceWeightedScore is sum(score * weight) / sum(weight)
\* over its scored records, rounded to 3 decimals; the weight is 1 without a
\* confidence, else 1 + 0.5 * (c - 1) / 4 for c clamped to [1, 5]: it does not
\* decrease with the confidence, is 1 up to confidence 1 and 1.5 from 5 on.
C7_ConfidenceWeightedScore ==
    /\ \A n \in 1..Len(paper_rows) :
        paper_rows[n].confidenceWeightedScore = WeightedOf(paper_rows[n].submission)
    /\ \A k \in Positions :
        LET c == reviews[k].confidence_score
        IN  /\ RatEq(confidence_weight(c), WeightOf(c))
            /\ c # None /\ RatLeq(Val(c), Whole(1)) => confidence_weight(c) = Whole(1)
            /\ c # None /\ RatLeq(Whole(5), Val(c)) => confidence_weight(c) = Rat(3, 2)
            /\ \A l \in Positions :
                LET e == reviews[l].confidence_score
                IN  c # None /\ e # None /\ RatLeq(Val(c), Val(e)) =>
                        RatLeq(confidence_weight(c), confidence_weight(e))

\* Score 4 at confidence 1 and score 2 at confidence 5 on one paper: 2.8.
C7_Witness ==
    /\ pc = "returned"
    /\ Len(reviews) = 2
    /\ reviews[1].overall_score = Some(Whole(4))
    /\ reviews[1].confidence_score = Some(Whole(1))
    /\ reviews[2].overall_score = Some(Whole(2))
    /\ reviews[2].confidence_score = Some(Whole(5))
    /\ Len(paper_rows) = 1
    /\ paper_rows[1].confidenceWeightedScore = Some(Rat(14, 5))

(***************************************************************************)
(* Reviewer keys: two records over every combination of identity fields.   *)
(***************************************************************************)
KeyChoices ==
    Choices({"17"},
            {Identity(m, e, n) : m \in {"", "alice", "unknown:r2.xml"},
                                 e \in {"", "a@x.org", "b@x.org"},
                                 n \in {"", "Ann Lee", "Bo Ek"}},
            {None}, {None})

InitKey ==
    /\ \E c \in KeyChoices : \E d \in KeyChoices : \E k \in 1..2 : \E l \in 1..2 :
        SummarizeStart(<<MkReview(k, c), MkReview(l, d)>>, "direct")
    /\ pc = "keys"
    /\ folder = None
    /\ xml_files = <<>>
    /\ idx = 1
    /\ parse_errors = <<>>
    /\ exc = None
    /\ response = None

\* reviewer_key_for applied to each record.
ResolveKeys ==
    /\ pc = "keys"
    /\ keys' = Some([k \in 1..Len(reviews) |-> reviewer_key_for(reviews[k])])
    /\ pc' = "keyed"
    /\ UNCHANGED <<caller, reviews, data, first_data>>
    /\ UNCHANGED sumVars
    /\ UNCHANGED loaderVars

NextKey == ResolveKeys

SpecKey == InitKey /\ [][NextKey]_vars

Unidentified(r) ==
    r.pc_member = "" /\ r.subreviewer_email = "" /\ r.subreviewer_name = ""

\* C4: the key is pcMember, else subreviewerEmail, else subreviewerName, else
\* made from the file name; it is never empty; equal non-empty pcMembers give
\* equal keys; unidentified records of different files get different keys.
C4_ReviewerKey ==
    keys # None =>
        /\ \A k \in Positions :
            LET r == reviews[k]
                key == Val(keys)[k]
            IN  /\ key # ""
                /\ r.pc_member # "" => key = r.pc_member
                /\ r.pc_member = "" /\ r.subreviewer_email # "" =>
                        key = r.subreviewer_email
                /\ r.pc_member = "" /\ r.subreviewer_email = ""
                    /\ r.subreviewer_name # "" => key = r.subreviewer_name
                /\ Unidentified(r) => Contains(key, r.file_name)
        /\ \A k \in Positions : \A l \in Positions :
            /\ reviews[k].pc_member # "" /\ reviews[k].pc_member = reviews[l].pc_member
                => Val(keys)[k] = Val(keys)[l]
            /\ Unidentified(reviews[k]) /\ Unidentified(reviews[l])
                /\ reviews[k].file_name # reviews[l].file_name
                => Val(keys)[k] # Val(keys)[l]

\* Two unidentified records of two files.
C4_Witness ==
    /\ keys # None
    /\ Unidentified(reviews[1])
    /\ Unidentified(reviews[2])
    /\ reviews[1].file_name # reviews[2].file_name
    /\ Val(keys) = <<"unknown:r1.xml", "unknown:r2.xml">>

(***************************************************************************)
(* summarize_reviews as one call, and the same records in another order.   *)
(***************************************************************************)
RECURSIVE Pass1All(_)
Pass1All(rs) ==
    IF rs = <<>> THEN EmptyMap
    ELSE Pass1Record(Pass1All(SubSeq(rs, 1, Len(rs) - 1)), rs[Len(rs)])

RECURSIVE GroupAll(_)
GroupAll(rs) ==
    IF rs = <<>> THEN <<>>
    ELSE GroupRecord(GroupAll(SubSeq(rs, 1, Len(rs) - 1)), rs[Len(rs)])

\* The whole of summarize_reviews on rs, and the return to the caller.
Summarized(rs) ==
    /\ i' = Len(rs) + 1
    /\ reviewer_scores' = Pass1All(rs)
    /\ reviewer_stats' = ReviewerStatsOf(reviewer_scores')
    /\ papers' = GroupAll(rs)
    /\ review_rows' = [k \in 1..Len(rs) |-> ReviewRow(rs[k], reviewer_key_for(rs[k]))]
    /\ paper_rows' = [n \in 1..Len(papers') |-> PaperRow(papers'[n], reviewer_stats')]
    /\ data' = Some([paperCount |-> Len(paper_rows'),
                     reviewCount |-> Len(review_rows'),
                     papers |-> paper_rows',
                     reviewRows |-> review_rows',
                     reviewerCount |-> Cardinality(DOMAIN reviewer_stats')])
    /\ pc' = "returned"

SummarizeAll ==
    /\ pc = "pass1"
    /\ Summarized(reviews)
    /\ UNCHANGED <<caller, reviews, first_data, keys>>
    /\ UNCHANGED loaderVars

Orders(n) == {f \in [1..n -> 1..n] : \A a \in 1..n : \E b \in 1..n : f[b] = a}

\* A second run of the engine, on the same records in another order.
SummarizePermuted ==
    /\ pc = "returned"
    /\ first_data = None
    /\ \E f \in Orders(Len(reviews)) :
        /\ reviews' = [k \in 1..Len(reviews) |-> reviews[f[k]]]
        /\ reviews' # reviews
    /\ first_data' = data
    /\ Summarized(reviews')
    /\ UNCHANGED <<caller, keys>>
    /\ UNCHANGED loaderVars

\* Score and confidence of a record, chosen together.
PermChoices ==
    {[submission |-> s, identity |-> id, score |-> sc[1], confidence |-> sc[2]] :
        s \in Submissions,
        id \in {Identity("alice", "", ""), Identity("", "", "")},
        sc \in {<<None, Some(Whole(2))>>, <<Some(Whole(3)), None>>,
                <<Some(Whole(5)), Some(Whole(4))>>}}

InitPerm ==
    /\ \E n \in 0..MaxReviews : \E c \in [1..n -> PermChoices] :
        SummarizeStart(ReviewList(c), "direct")
    /\ pc = "pass1"
    /\ folder = None
    /\ xml_files = <<>>
    /\ idx = 1
    /\ parse_errors = <<>>
    /\ exc = None
    /\ response = None

NextPerm == SummarizeAll \/ SummarizePermuted

SpecPerm == InitPerm /\ [][NextPerm]_vars

RowOf(d, submission) ==
    d.papers[CHOOSE n \in 1..Len(d.papers) : d.papers[n].submission = submission]

SubmissionsOf(d) == {d.papers[n].submission : n \in 1..Len(d.papers)}

Statistics(row) ==
    <<row.reviewCount, row.avgScore, row.minScore, row.maxScore,
      row.scoreDiscrepancy, row.avgConfidence, row.avgWordCount,
      row.confidenceWeightedScore, row.reviewerAdjustedScore>>

====
